---- MODULE Spec2Model ----
(***************************************************************************)
(* RBAC authorization core of the monorepo: the tRPC procedure chain       *)
(* protectedProcedure -> adminProcedure -> createPermissionProcedure       *)
(* (shared/api-helpers), the cms router (checkAccess, listRoles) and the   *)
(* four RBAC tables of the database schema.                                *)
(*                                                                         *)
(* The store is the four tables.  A guarded call is one request running    *)
(* through its middleware chain; every middleware is one step, taken at    *)
(* the point where it reads the store.  Assignments and grants are written *)
(* by user management, outside the core, and may interleave with a call.   *)
(***************************************************************************)
EXTENDS Integers, FiniteSets, Sequences, Bags, TLC

\* ------------------------------------------------------------------ bounds
MaxWrites == 3      \* store writes explored in one behaviour
NumCalls == 2       \* call slots; Spec uses the first, SpecConc all of them

\* ---------------------------------------------------------------- universe
Users == {"U0001", "U0002"}
Anonymous == "anonymous"                 \* request headers with no credentials
Headers == Users \cup {Anonymous}
CallIds == 1..NumCalls

Null == [null |-> TRUE]
Undefined == [undefined |-> TRUE]

ROLE_NAMES ==
    [SUPER_ADMIN |-> "super_admin", EDITOR |-> "editor",
     CONTENT_MANAGER |-> "content_manager", CUSTOMER |-> "customer"]

ADMIN_ROLES_NoContentManager == {ROLE_NAMES.SUPER_ADMIN, ROLE_NAMES.EDITOR}

ADMIN_ROLES ==
    {ROLE_NAMES.SUPER_ADMIN, ROLE_NAMES.EDITOR, ROLE_NAMES.CONTENT_MANAGER}

\* Provisioned roles: the four default roles and one further non-admin role.
SeedRoles ==
    {[id |-> "R1", name |-> ROLE_NAMES.SUPER_ADMIN],
     [id |-> "R2", name |-> ROLE_NAMES.EDITOR],
     [id |-> "R3", name |-> ROLE_NAMES.CONTENT_MANAGER],
     [id |-> "R4", name |-> ROLE_NAMES.CUSTOMER],
     [id |-> "R5", name |-> "guest"]}
RoleIds == {r.id : r \in SeedRoles}

\* Permission names are "resource.action" strings, kept as their dotted segments.
PagesCreate == <<"cms", "pages", "create">>
ProductsDelete == <<"products", "delete">>
OrdersView == <<"orders", "view">>       \* never provisioned
SeedPermissions ==
    {[id |-> "P1", name |-> PagesCreate], [id |-> "P2", name |-> ProductsDelete]}
PermissionIds == {p.id : p \in SeedPermissions}
PermissionNames == {PagesCreate, ProductsDelete, OrdersView}
\* Names close to a provisioned one: same resource, and one it is a prefix of.
PagesPublish == <<"cms", "pages", "publish">>
PagesCreateDraft == <<"cms", "pages", "create", "draft">>
LookalikeNames == {PagesPublish, PagesCreateDraft}

\* Provisioned grants; super_admin has none.
SeedGrants == {<<"R2", "P1">>, <<"R3", "P2">>, <<"R4", "P1">>, <<"R5", "P2">>}

Kinds == {"protected", "admin", "permission", "checkAccess", "listRoles"}

VARIABLES
    roles,            \* table roles: rows [id, name]
    permissions,      \* table permissions: rows [id, name]
    rolePermissions,  \* table role_permissions: rows <<roleId, permissionId>>
    userRoles,        \* table user_roles: bag of rows <<userId, roleId>>
    calls,            \* the guarded calls, one record per slot
    nWrites,          \* writes done so far
    lastRevoked,      \* the user_roles row removed last, or Null
    rejected,         \* the last write was an insert of a pair already held
    barrier           \* CMSBarrier: its session and its checkAccess query

vars ==
    <<roles, permissions, rolePermissions, userRoles, calls, nWrites,
      lastRevoked, rejected, barrier>>
history == <<nWrites, lastRevoked, rejected>>
store == <<roles, permissions, rolePermissions, userRoles>>

\* --------------------------------------------------------------- the store
\* user_roles has primaryKey(userId, roleId) and a foreign key to roles.id:
\* an insert of a present pair, or of an unknown role, is rejected.
InsertUserRole_NoPrimaryKey(tbl, rl, uid, rid) ==
    IF rid \notin {r.id : r \in rl} THEN tbl
    ELSE tbl (+) SetToBag({<<uid, rid>>})

InsertUserRole(tbl, rl, uid, rid) ==
    IF BagIn(<<uid, rid>>, tbl) \/ rid \notin {r.id : r \in rl} THEN tbl
    ELSE tbl (+) SetToBag({<<uid, rid>>})

\* delete from user_roles where userId = uid and roleId = rid
DeleteUserRole(tbl, uid, rid) ==
    [k \in (DOMAIN tbl) \ {<<uid, rid>>} |-> tbl[k]]

\* role_permissions has primaryKey(roleId, permissionId) and foreign keys.
InsertRolePermission(tbl, rl, pm, rid, pid) ==
    IF rid \in {r.id : r \in rl} /\ pid \in {p.id : p \in pm}
    THEN tbl \cup {<<rid, pid>>} ELSE tbl

DeleteRolePermission(tbl, rid, pid) == tbl \ {<<rid, pid>>}

\* roles has a primary key on id and name is unique(): an insert that repeats
\* either is rejected.
InsertRole_NoUniqueName(tbl, id, name) ==
    IF id \in {r.id : r \in tbl} THEN tbl
    ELSE tbl \cup {[id |-> id, name |-> name]}

InsertRole(tbl, id, name) ==
    IF id \in {r.id : r \in tbl} \/ name \in {r.name : r \in tbl} THEN tbl
    ELSE tbl \cup {[id |-> id, name |-> name]}

\* permissions: the same constraints
InsertPermission(tbl, id, name) ==
    IF id \in {x.id : x \in tbl} \/ name \in {x.name : x \in tbl} THEN tbl
    ELSE tbl \cup {[id |-> id, name |-> name]}

\* references(() => roles.id, { onDelete: 'cascade' }) on user_roles.role_id
CascadeUserRoles_NoCascade(tbl, rid) == tbl

CascadeUserRoles(tbl, rid) ==
    [k \in {x \in DOMAIN tbl : x[2] # rid} |-> tbl[k]]

\* onDelete: 'cascade' on role_permissions.role_id and .permission_id
CascadeGrantsOfRole(tbl, rid) == {g \in tbl : g[1] # rid}
CascadeGrantsOfPermission(tbl, pid) == {g \in tbl : g[2] # pid}

\* ------------------------------------------------------------- the queries
RECURSIVE SumCopies(_, _)
SumCopies(tbl, keys) ==
    IF keys = {} THEN 0
    ELSE LET k == CHOOSE x \in keys : TRUE
         IN  tbl[k] + SumCopies(tbl, keys \ {k})

\* select roles.name from user_roles inner join roles on roles.id =
\* user_roles.roleId where user_roles.userId = uid; mapped to r.roleName.
\* The rows come in no promised order: the result is the bag of the names.
RoleQuery_AnyUser(ur, rl, uid) ==
    LET joined == {<<k, r>> \in (DOMAIN ur) \X rl : r.id = k[2]}
        names == {j[2].name : j \in joined}
    IN  [n \in names |->
            SumCopies(ur, {j[1] : j \in {x \in joined : x[2].name = n}})]

RoleQuery(ur, rl, uid) ==
    LET joined == {<<k, r>> \in (DOMAIN ur) \X rl : r.id = k[2] /\ k[1] = uid}
        names == {j[2].name : j \in joined}
    IN  [n \in names |->
            SumCopies(ur, {j[1] : j \in {x \in joined : x[2].name = n}})]

\* userRoleNames.some((roleName) => ADMIN_ROLES.includes(roleName))
IsAdmin(userRoleNames) == \E n \in BagToSet(userRoleNames) : n \in ADMIN_ROLES

\* select userId from user_roles inner join roles inner join role_permissions
\* inner join permissions where user_roles.userId = uid and
\* permissions.name = requiredPermission
PermissionRows_AnyRole(ur, rl, rp, pm, uid, requiredPermission) ==
    {row \in (DOMAIN ur) \X rl \X rp \X pm :
        /\ row[2].id = row[1][2]
        /\ row[4].id = row[3][2]
        /\ row[1][1] = uid
        /\ row[4].name = requiredPermission}

IsPrefix(q, p) == Len(q) <= Len(p) /\ SubSeq(p, 1, Len(q)) = q

PermissionRows_PrefixMatch(ur, rl, rp, pm, uid, requiredPermission) ==
    {row \in (DOMAIN ur) \X rl \X rp \X pm :
        /\ row[2].id = row[1][2]
        /\ row[3][1] = row[2].id
        /\ row[4].id = row[3][2]
        /\ row[1][1] = uid
        /\ IsPrefix(row[4].name, requiredPermission)}

PermissionRows_IgnoreName(ur, rl, rp, pm, uid, requiredPermission) ==
    {row \in (DOMAIN ur) \X rl \X rp \X pm :
        /\ row[2].id = row[1][2]
        /\ row[3][1] = row[2].id
        /\ row[4].id = row[3][2]
        /\ row[1][1] = uid}

PermissionRows(ur, rl, rp, pm, uid, requiredPermission) ==
    {row \in (DOMAIN ur) \X rl \X rp \X pm :
        /\ row[2].id = row[1][2]
        /\ row[3][1] = row[2].id
        /\ row[4].id = row[3][2]
        /\ row[1][1] = uid
        /\ row[4].name = requiredPermission}

HasPermissionLength_EveryRole(ur, rl, rp, pm, uid, requiredPermission) ==
    IF \A k \in {x \in DOMAIN ur : x[1] = uid} :
          \E row \in PermissionRows(ur, rl, rp, pm, uid, requiredPermission) :
              row[1] = k
    THEN 1 ELSE 0

\* .limit(1), then hasPermission.length
HasPermissionLength(ur, rl, rp, pm, uid, requiredPermission) ==
    IF PermissionRows(ur, rl, rp, pm, uid, requiredPermission) = {} THEN 0 ELSE 1

\* ----------------------------------------------------------------- session
\* ctx.auth.getSession(ctx.req.headers): the session of the credentials, or null
GetSession(headers) ==
    IF headers \in Users THEN [user |-> [id |-> headers]] ELSE Null

\* next({ ctx: { session, ...ctx } }): the spread comes last, so a session
\* key already in ctx wins over the resolved one.
MergeSession(session, ctx) ==
    IF ctx.session = Undefined THEN [ctx EXCEPT !.session = session] ELSE ctx

\* The context a request starts with: TRPCContext = { db, auth, req }.
NewContext == [session |-> Undefined, userRoles |-> Undefined]

\* ---------------------------------------------------------------- outcomes
Pending == [code |-> "PENDING", message |-> <<>>]
Unauthorized == [code |-> "UNAUTHORIZED", message |-> <<>>]
AdminRequired == [code |-> "FORBIDDEN", message |-> <<"Admin access required">>]
PermissionRequired(requiredPermission) ==
    [code |-> "FORBIDDEN",
     message |-> <<"Permission '">> \o requiredPermission \o <<"' required">>]
Ok == [code |-> "OK", message |-> <<>>]
\* An error that is no TRPCError reaches the caller as INTERNAL_SERVER_ERROR.
Internal == [code |-> "INTERNAL_SERVER_ERROR", message |-> <<>>]

IdleCall ==
    [pc |-> "idle", kind |-> "protected", headers |-> Anonymous,
     requiredPermission |-> PagesCreate, ctx |-> NewContext,
     outcome |-> Pending, data |-> Undefined,
     roleQueries |-> 0, permQueries |-> 0, executed |-> FALSE,
     dirty |-> FALSE, prevAllowed |-> FALSE, storeFailed |-> FALSE,
     before |-> Undefined, justified |-> FALSE]

\* CMSBarrier on mount: the session still loading, the query not yet run.
NewBarrier ==
    [session |-> Undefined,
     cmsCheck |-> [status |-> "pending", fetchStatus |-> "idle",
                   data |-> Undefined, error |-> Null],
     fetches |-> 0]

Init ==
    /\ roles = SeedRoles
    /\ permissions = SeedPermissions
    /\ rolePermissions = SeedGrants
    /\ userRoles = EmptyBag
    /\ calls = [c \in CallIds |-> IdleCall]
    /\ nWrites = 0
    /\ lastRevoked = Null
    /\ rejected = FALSE
    /\ barrier = NewBarrier

\* ------------------------------------------------------------------- calls
\* A request arrives: procedure kind, request headers, and for a
\* permission-gated procedure the permission it was created with.
NewCall(c, kind, headers, requiredPermission) ==
    [IdleCall EXCEPT
        !.pc = "session", !.kind = kind, !.headers = headers,
        !.requiredPermission = requiredPermission,
        !.prevAllowed =
            /\ calls[c].pc = "done"
            /\ calls[c].kind = "permission" /\ kind = "permission"
            /\ calls[c].headers = headers
            /\ calls[c].requiredPermission = requiredPermission
            /\ calls[c].outcome = Ok]

StartCall(c, kind, headers, requiredPermission) ==
    /\ calls[c].pc \in {"idle", "done"}
    /\ calls' = [calls EXCEPT ![c] = NewCall(c, kind, headers, requiredPermission)]
    /\ UNCHANGED <<store, history, barrier>>

\* What runs after protectedProcedure's middleware.
AfterSession(kind) ==
    IF kind \in {"admin", "permission"} THEN "roles" ELSE "action"

protectedProcedure_NoSessionCheck(c) ==
    LET call == calls[c]
        session == GetSession(call.headers)
    IN  /\ call.pc = "session"
        /\ calls' = [calls EXCEPT ![c] =
                [call EXCEPT !.pc = AfterSession(call.kind),
                             !.ctx = MergeSession(session, call.ctx)]]
        /\ UNCHANGED <<store, history, barrier>>

protectedProcedure(c) ==
    LET call == calls[c]
        session == GetSession(call.headers)
    IN  /\ call.pc = "session"
        /\ calls' = [calls EXCEPT ![c] =
                IF session = Null
                THEN [call EXCEPT !.pc = "done", !.outcome = Unauthorized]
                ELSE [call EXCEPT !.pc = AfterSession(call.kind),
                                  !.ctx = MergeSession(session, call.ctx)]]
        /\ UNCHANGED <<store, history, barrier>>

\* ctx.session.user.id; undefined when there is no session
SessionUserId(ctx) ==
    IF ctx.session \in {Null, Undefined} THEN Anonymous ELSE ctx.session.user.id

\* as if the resolved names were kept in a variable of the module
adminProcedure_SharedRoles(c) ==
    LET call == calls[c]
        others == {d \in CallIds : d # c /\ calls[d].ctx.userRoles # Undefined}
        userRoleNames ==
            IF others # {} THEN calls[CHOOSE d \in others : TRUE].ctx.userRoles
            ELSE RoleQuery(userRoles, roles, SessionUserId(call.ctx))
        isAdmin == IsAdmin(userRoleNames)
    IN  /\ call.pc = "roles"
        /\ calls' = [calls EXCEPT ![c] =
                IF ~isAdmin
                THEN [call EXCEPT !.pc = "done", !.outcome = AdminRequired,
                                  !.roleQueries = @ + 1]
                ELSE [call EXCEPT
                        !.pc = IF call.kind = "permission" THEN "perm" ELSE "action",
                        !.ctx = [call.ctx EXCEPT !.userRoles = userRoleNames],
                        !.roleQueries = @ + 1]]
        /\ UNCHANGED <<store, history, barrier>>

\* as if createPermissionProcedure were built on protectedProcedure
adminProcedure_PermissionSkipsGate(c) ==
    LET call == calls[c]
        userRoleNames == RoleQuery(userRoles, roles, SessionUserId(call.ctx))
        isAdmin == IsAdmin(userRoleNames)
    IN  /\ call.pc = "roles"
        /\ calls' = [calls EXCEPT ![c] =
                IF ~isAdmin /\ call.kind # "permission"
                THEN [call EXCEPT !.pc = "done", !.outcome = AdminRequired,
                                  !.roleQueries = @ + 1]
                ELSE [call EXCEPT
                        !.pc = IF call.kind = "permission" THEN "perm" ELSE "action",
                        !.ctx = [call.ctx EXCEPT !.userRoles = userRoleNames],
                        !.roleQueries = @ + 1]]
        /\ UNCHANGED <<store, history, barrier>>

\* as if only the admin role names were passed on
adminProcedure_AdminNamesOnly(c) ==
    LET call == calls[c]
        userRoleNames == RoleQuery(userRoles, roles, SessionUserId(call.ctx))
        isAdmin == IsAdmin(userRoleNames)
        adminNames == [n \in BagToSet(userRoleNames) \cap ADMIN_ROLES |-> 1]
    IN  /\ call.pc = "roles"
        /\ calls' = [calls EXCEPT ![c] =
                IF ~isAdmin
                THEN [call EXCEPT !.pc = "done", !.outcome = AdminRequired,
                                  !.roleQueries = @ + 1]
                ELSE [call EXCEPT
                        !.pc = IF call.kind = "permission" THEN "perm" ELSE "action",
                        !.ctx = [call.ctx EXCEPT !.userRoles = adminNames],
                        !.roleQueries = @ + 1]]
        /\ UNCHANGED <<store, history, barrier>>

\* as if a denial were tried once more
adminProcedure_RetriesOnDeny(c) ==
    LET call == calls[c]
        userRoleNames == RoleQuery(userRoles, roles, SessionUserId(call.ctx))
        isAdmin == IsAdmin(userRoleNames)
    IN  /\ call.pc = "roles"
        /\ calls' = [calls EXCEPT ![c] =
                IF ~isAdmin /\ call.roleQueries = 0
                THEN [call EXCEPT !.roleQueries = @ + 1]
                ELSE IF ~isAdmin
                THEN [call EXCEPT !.pc = "done", !.outcome = AdminRequired,
                                  !.roleQueries = @ + 1]
                ELSE [call EXCEPT
                        !.pc = IF call.kind = "permission" THEN "perm" ELSE "action",
                        !.ctx = [call.ctx EXCEPT !.userRoles = userRoleNames],
                        !.roleQueries = @ + 1]]
        /\ UNCHANGED <<store, history, barrier>>

adminProcedure_NoThrow(c) ==
    LET call == calls[c]
        userRoleNames == RoleQuery(userRoles, roles, SessionUserId(call.ctx))
    IN  /\ call.pc = "roles"
        /\ calls' = [calls EXCEPT ![c] =
                [call EXCEPT
                    !.pc = IF call.kind = "permission" THEN "perm" ELSE "action",
                    !.ctx = [call.ctx EXCEPT !.userRoles = userRoleNames],
                    !.roleQueries = @ + 1]]
        /\ UNCHANGED <<store, history, barrier>>

adminProcedure(c) ==
    LET call == calls[c]
        userRoleNames == RoleQuery(userRoles, roles, SessionUserId(call.ctx))
        isAdmin == IsAdmin(userRoleNames)
    IN  /\ call.pc = "roles"
        /\ calls' = [calls EXCEPT ![c] =
                IF ~isAdmin
                THEN [call EXCEPT !.pc = "done", !.outcome = AdminRequired,
                                  !.roleQueries = @ + 1]
                ELSE [call EXCEPT
                        !.pc = IF call.kind = "permission" THEN "perm" ELSE "action",
                        !.ctx = [call.ctx EXCEPT !.userRoles = userRoleNames],
                        !.roleQueries = @ + 1]]
        /\ UNCHANGED <<store, history, barrier>>

createPermissionProcedure_NoBypass(c) ==
    LET call == calls[c]
        hasPermission ==
            HasPermissionLength(userRoles, roles, rolePermissions, permissions,
                                SessionUserId(call.ctx), call.requiredPermission)
    IN  /\ call.pc = "perm"
        /\ calls' = [calls EXCEPT ![c] =
                IF hasPermission = 0
                THEN [call EXCEPT !.pc = "done",
                                  !.outcome = PermissionRequired(call.requiredPermission),
                                  !.permQueries = @ + 1]
                ELSE [call EXCEPT !.pc = "action", !.permQueries = @ + 1]]
        /\ UNCHANGED <<store, history, barrier>>

\* as if the permission were looked up for the role names resolved earlier
createPermissionProcedure_FromResolved(c) ==
    LET call == calls[c]
        granting ==
            {row \in roles \X rolePermissions \X permissions :
                /\ BagIn(row[1].name, call.ctx.userRoles)
                /\ row[2][1] = row[1].id
                /\ row[3].id = row[2][2]
                /\ row[3].name = call.requiredPermission}
    IN  /\ call.pc = "perm"
        /\ calls' = [calls EXCEPT ![c] =
                IF BagIn(ROLE_NAMES.SUPER_ADMIN, call.ctx.userRoles)
                THEN [call EXCEPT !.pc = "action"]
                ELSE IF granting = {}
                THEN [call EXCEPT !.pc = "done",
                                  !.outcome = PermissionRequired(call.requiredPermission),
                                  !.permQueries = @ + 1]
                ELSE [call EXCEPT !.pc = "action", !.permQueries = @ + 1]]
        /\ UNCHANGED <<store, history, barrier>>

\* as if the query ran before the super_admin test
createPermissionProcedure_QueryFirst(c) ==
    LET call == calls[c]
        hasPermission ==
            HasPermissionLength(userRoles, roles, rolePermissions, permissions,
                                SessionUserId(call.ctx), call.requiredPermission)
    IN  /\ call.pc = "perm"
        /\ calls' = [calls EXCEPT ![c] =
                IF BagIn(ROLE_NAMES.SUPER_ADMIN, call.ctx.userRoles)
                THEN [call EXCEPT !.pc = "action", !.permQueries = @ + 1]
                ELSE IF hasPermission = 0
                THEN [call EXCEPT !.pc = "done",
                                  !.outcome = PermissionRequired(call.requiredPermission),
                                  !.permQueries = @ + 1]
                ELSE [call EXCEPT !.pc = "action", !.permQueries = @ + 1]]
        /\ UNCHANGED <<store, history, barrier>>

createPermissionProcedure_Cached(c) ==
    LET call == calls[c]
        hasPermission ==
            HasPermissionLength(userRoles, roles, rolePermissions, permissions,
                                SessionUserId(call.ctx), call.requiredPermission)
    IN  /\ call.pc = "perm"
        /\ calls' = [calls EXCEPT ![c] =
                IF BagIn(ROLE_NAMES.SUPER_ADMIN, call.ctx.userRoles) \/ call.prevAllowed
                THEN [call EXCEPT !.pc = "action"]
                ELSE IF hasPermission = 0
                THEN [call EXCEPT !.pc = "done",
                                  !.outcome = PermissionRequired(call.requiredPermission),
                                  !.permQueries = @ + 1]
                ELSE [call EXCEPT !.pc = "action", !.permQueries = @ + 1]]
        /\ UNCHANGED <<store, history, barrier>>

\* The middleware createPermissionProcedure(requiredPermission) adds to adminProcedure.
createPermissionProcedure(c) ==
    LET call == calls[c]
        hasPermission ==
            HasPermissionLength(userRoles, roles, rolePermissions, permissions,
                                SessionUserId(call.ctx), call.requiredPermission)
    IN  /\ call.pc = "perm"
        /\ calls' = [calls EXCEPT ![c] =
                IF BagIn(ROLE_NAMES.SUPER_ADMIN, call.ctx.userRoles)
                THEN [call EXCEPT !.pc = "action"]
                ELSE IF hasPermission = 0
                THEN [call EXCEPT !.pc = "done",
                                  !.outcome = PermissionRequired(call.requiredPermission),
                                  !.permQueries = @ + 1]
                ELSE [call EXCEPT !.pc = "action", !.permQueries = @ + 1]]
        /\ UNCHANGED <<store, history, barrier>>

\* as if a principal without a role were given the customer role on the way
checkAccess_AssignsDefault(c) ==
    LET call == calls[c]
        userRoleNames == RoleQuery(userRoles, roles, SessionUserId(call.ctx))
    IN  /\ call.pc = "action" /\ call.kind = "checkAccess"
        /\ calls' = [calls EXCEPT ![c] =
                [call EXCEPT !.pc = "done", !.outcome = Ok, !.executed = TRUE,
                             !.roleQueries = @ + 1,
                             !.data = [isAdmin |-> IsAdmin(userRoleNames),
                                       roles |-> userRoleNames]]]
        /\ userRoles' =
              IF userRoleNames = EmptyBag
              THEN InsertUserRole(userRoles, roles, SessionUserId(call.ctx), "R4")
              ELSE userRoles
        /\ UNCHANGED <<roles, permissions, rolePermissions, history, barrier>>

\* as if checkAccess kept a list of admin roles of its own
checkAccess_OwnAdminList(c) ==
    LET call == calls[c]
        userRoleNames == RoleQuery(userRoles, roles, SessionUserId(call.ctx))
    IN  /\ call.pc = "action" /\ call.kind = "checkAccess"
        /\ calls' = [calls EXCEPT ![c] =
                [call EXCEPT !.pc = "done", !.outcome = Ok, !.executed = TRUE,
                             !.roleQueries = @ + 1,
                             !.data = [isAdmin |->
                                          \E n \in BagToSet(userRoleNames) :
                                              n \in {ROLE_NAMES.SUPER_ADMIN,
                                                     ROLE_NAMES.EDITOR},
                                       roles |-> userRoleNames]]]
        /\ UNCHANGED <<store, history, barrier>>

checkAccess_AdminOnly(c) ==
    LET call == calls[c]
        userRoleNames == RoleQuery(userRoles, roles, SessionUserId(call.ctx))
    IN  /\ call.pc = "action" /\ call.kind = "checkAccess"
        /\ calls' = [calls EXCEPT ![c] =
                IF IsAdmin(userRoleNames)
                THEN [call EXCEPT !.pc = "done", !.outcome = Ok, !.executed = TRUE,
                                  !.roleQueries = @ + 1,
                                  !.data = [isAdmin |-> TRUE, roles |-> userRoleNames]]
                ELSE [call EXCEPT !.pc = "done", !.outcome = AdminRequired,
                                  !.roleQueries = @ + 1]]
        /\ UNCHANGED <<store, history, barrier>>

\* cms.checkAccess, the resolver
checkAccess(c) ==
    LET call == calls[c]
        userRoleNames == RoleQuery(userRoles, roles, SessionUserId(call.ctx))
    IN  /\ call.pc = "action" /\ call.kind = "checkAccess"
        /\ calls' = [calls EXCEPT ![c] =
                [call EXCEPT !.pc = "done", !.outcome = Ok, !.executed = TRUE,
                             !.roleQueries = @ + 1,
                             !.data = [isAdmin |-> IsAdmin(userRoleNames),
                                       roles |-> userRoleNames]]]
        /\ UNCHANGED <<store, history, barrier>>

\* cms.listRoles, the resolver
listRoles(c) ==
    LET call == calls[c]
    IN  /\ call.pc = "action" /\ call.kind = "listRoles"
        /\ calls' = [calls EXCEPT ![c] =
                [call EXCEPT !.pc = "done", !.outcome = Ok, !.executed = TRUE,
                             !.data = [allRoles |-> roles]]]
        /\ UNCHANGED <<store, history, barrier>>

\* The wrapped action of any other procedure: it is handed ctx.
WrappedAction(c) ==
    LET call == calls[c]
    IN  /\ call.pc = "action" /\ call.kind \in {"protected", "admin", "permission"}
        /\ calls' = [calls EXCEPT ![c] =
                [call EXCEPT !.pc = "done", !.outcome = Ok, !.executed = TRUE,
                             !.data = [ctx |-> call.ctx]]]
        /\ UNCHANGED <<store, history, barrier>>

\* ----------------------------------------------------------- store failure
\* The awaited query rejects.  No middleware catches: the error leaves the
\* chain, nothing after the query runs.
RoleQueryFails_AsEmpty(c) ==
    LET call == calls[c]
    IN  /\ call.pc = "roles"
        /\ calls' = [calls EXCEPT ![c] =
                [call EXCEPT !.pc = "done", !.outcome = AdminRequired,
                             !.storeFailed = TRUE, !.roleQueries = @ + 1]]
        /\ UNCHANGED <<store, history, barrier>>

RoleQueryFails(c) ==
    LET call == calls[c]
    IN  /\ call.pc = "roles"
        /\ calls' = [calls EXCEPT ![c] =
                [call EXCEPT !.pc = "done", !.outcome = Internal,
                             !.storeFailed = TRUE, !.roleQueries = @ + 1]]
        /\ UNCHANGED <<store, history, barrier>>

PermissionQueryFails(c) ==
    LET call == calls[c]
    IN  /\ call.pc = "perm"
        /\ ~BagIn(ROLE_NAMES.SUPER_ADMIN, call.ctx.userRoles)
        /\ calls' = [calls EXCEPT ![c] =
                [call EXCEPT !.pc = "done", !.outcome = Internal,
                             !.storeFailed = TRUE, !.permQueries = @ + 1]]
        /\ UNCHANGED <<store, history, barrier>>

\* the query of cms.checkAccess or cms.listRoles rejects
ResolverQueryFails(c) ==
    LET call == calls[c]
    IN  /\ call.pc = "action" /\ call.kind \in {"checkAccess", "listRoles"}
        /\ calls' = [calls EXCEPT ![c] =
                [call EXCEPT !.pc = "done", !.outcome = Internal,
                             !.storeFailed = TRUE,
                             !.roleQueries =
                                 IF call.kind = "checkAccess" THEN @ + 1 ELSE @]]
        /\ UNCHANGED <<store, history, barrier>>

\* ------------------------------------------------------------------ writes
\* A call that has started and sees the store change is marked.
Touched(changed) ==
    [c \in CallIds |->
        IF changed /\ calls[c].pc # "idle"
        THEN [calls[c] EXCEPT !.dirty = TRUE] ELSE calls[c]]

AssignRole(uid, rid) ==
    /\ nWrites < MaxWrites
    /\ userRoles' = InsertUserRole(userRoles, roles, uid, rid)
    /\ calls' = Touched(userRoles' # userRoles)
    /\ nWrites' = nWrites + 1
    /\ rejected' = BagIn(<<uid, rid>>, userRoles)
    /\ UNCHANGED <<roles, permissions, rolePermissions, lastRevoked, barrier>>

\* A delete that matches no row changes nothing and is left out.
RevokeRole(uid, rid) ==
    /\ nWrites < MaxWrites
    /\ BagIn(<<uid, rid>>, userRoles)
    /\ userRoles' = DeleteUserRole(userRoles, uid, rid)
    /\ calls' = Touched(TRUE)
    /\ lastRevoked' = [userId |-> uid, roleId |-> rid]
    /\ nWrites' = nWrites + 1
    /\ rejected' = FALSE
    /\ UNCHANGED <<roles, permissions, rolePermissions, barrier>>

\* A grant that is already there is rejected, changes nothing and is left out.
GrantPermission(rid, pid) ==
    /\ nWrites < MaxWrites
    /\ <<rid, pid>> \notin rolePermissions
    /\ rolePermissions' =
          InsertRolePermission(rolePermissions, roles, permissions, rid, pid)
    /\ calls' = Touched(rolePermissions' # rolePermissions)
    /\ nWrites' = nWrites + 1
    /\ rejected' = FALSE
    /\ UNCHANGED <<roles, permissions, userRoles, lastRevoked, barrier>>

RevokeGrant(rid, pid) ==
    /\ nWrites < MaxWrites
    /\ <<rid, pid>> \in rolePermissions
    /\ rolePermissions' = DeleteRolePermission(rolePermissions, rid, pid)
    /\ calls' = Touched(TRUE)
    /\ nWrites' = nWrites + 1
    /\ rejected' = FALSE
    /\ UNCHANGED <<roles, permissions, userRoles, lastRevoked, barrier>>

Write ==
    \/ \E uid \in Users, rid \in RoleIds : AssignRole(uid, rid)
    \/ \E uid \in Users, rid \in RoleIds : RevokeRole(uid, rid)
    \/ \E rid \in RoleIds, pid \in PermissionIds : GrantPermission(rid, pid)
    \/ \E rid \in RoleIds, pid \in PermissionIds : RevokeGrant(rid, pid)

Step(c) ==
    \/ \E kind \in Kinds \ {"permission"}, headers \in Headers :
            StartCall(c, kind, headers, PagesCreate)
    \/ \E headers \in Headers, requiredPermission \in PermissionNames :
            StartCall(c, "permission", headers, requiredPermission)
    \/ protectedProcedure(c)
    \/ adminProcedure(c)
    \/ createPermissionProcedure(c)
    \/ checkAccess(c)
    \/ listRoles(c)
    \/ WrappedAction(c)

\* One guarded call after another in slot 1, each racing with the writes.
Next == Step(1) \/ Write

Spec == Init /\ [][Next]_vars

\* The same, with a store that may fail a query.
NextFail ==
    \/ Next
    \/ RoleQueryFails(1)
    \/ PermissionQueryFails(1)
    \/ ResolverQueryFails(1)

SpecFail == Init /\ [][NextFail]_vars

\* One write lands while the call is between its steps; the call keeps the
\* assignments and grants as they were just before it.
RaceWrite(c) ==
    /\ calls[c].pc \notin {"idle", "done"}
    /\ ~calls[c].dirty
    /\ nWrites < MaxWrites
    /\ \E op \in {"assign", "revoke", "grant", "revokeGrant"},
          uid \in Users, rid \in RoleIds, pid \in PermissionIds :
          /\ userRoles' =
                CASE op = "assign" -> InsertUserRole(userRoles, roles, uid, rid)
                  [] op = "revoke" -> DeleteUserRole(userRoles, uid, rid)
                  [] OTHER -> userRoles
          /\ rolePermissions' =
                CASE op = "grant" ->
                        InsertRolePermission(rolePermissions, roles, permissions,
                                             rid, pid)
                  [] op = "revokeGrant" ->
                        DeleteRolePermission(rolePermissions, rid, pid)
                  [] OTHER -> rolePermissions
          /\ lastRevoked' = IF op = "revoke"
                            THEN [userId |-> uid, roleId |-> rid] ELSE lastRevoked
    /\ <<userRoles', rolePermissions'>> # <<userRoles, rolePermissions>>
    /\ calls' = [calls EXCEPT ![c] =
            [@ EXCEPT !.dirty = TRUE,
                      !.before = [userRoles |-> userRoles,
                                  rolePermissions |-> rolePermissions]]]
    /\ nWrites' = nWrites + 1
    /\ rejected' = FALSE
    /\ UNCHANGED <<roles, permissions, barrier>>

\* Writes while no call is under way and none has been raced.
QuietWrite(c) ==
    /\ calls[c].pc \in {"idle", "done"}
    /\ calls[c].before = Undefined
    /\ Write

StepRace(c) ==
    \/ \E headers \in Users : StartCall(c, "admin", headers, PagesCreate)
    \/ \E headers \in Users, requiredPermission \in PermissionNames :
            StartCall(c, "permission", headers, requiredPermission)
    \/ protectedProcedure(c)
    \/ adminProcedure(c)
    \/ createPermissionProcedure(c)
    \/ WrappedAction(c)

NextRace == StepRace(1) \/ QuietWrite(1) \/ RaceWrite(1)

SpecRace == Init /\ [][NextRace]_vars

\* -------------------------------------------------------------- CMSBarrier
SessionValues == {Undefined, Null} \cup {GetSession(u) : u \in Users}

\* const session = useSession(): undefined while loading, null without a
\* session, the session otherwise; the hook may hand out a new value any time.
useSession ==
    /\ \E session \in SessionValues \ {barrier.session} :
            barrier' = [barrier EXCEPT !.session = session]
    /\ UNCHANGED <<store, calls, history>>

Enabled(session) == session # Null /\ session # Undefined

\* useQuery: an enabled query without data fetches. The request carries the
\* browser's cookies, which the server may or may not still resolve.
FetchCheckAccess(c) ==
    /\ Enabled(barrier.session)
    /\ barrier.cmsCheck.status = "pending"
    /\ barrier.cmsCheck.fetchStatus = "idle"
    /\ calls[c].pc = "idle"
    /\ \E headers \in {barrier.session.user.id, Anonymous} :
            calls' = [calls EXCEPT ![c] =
                        NewCall(c, "checkAccess", headers, PagesCreate)]
    /\ barrier' = [barrier EXCEPT !.cmsCheck.fetchStatus = "fetching",
                                  !.fetches = @ + 1]
    /\ UNCHANGED <<store, history>>

\* the response settles the query
QueryResolves(c) ==
    /\ barrier.cmsCheck.fetchStatus = "fetching"
    /\ calls[c].pc = "done"
    /\ barrier' = [barrier EXCEPT !.cmsCheck =
            IF calls[c].outcome = Ok
            THEN [status |-> "success", fetchStatus |-> "idle",
                  data |-> calls[c].data, error |-> Null]
            ELSE [status |-> "error", fetchStatus |-> "idle",
                  data |-> Undefined, error |-> calls[c].outcome]]
    /\ UNCHANGED <<store, calls, history>>

IsPending(cmsCheck) == cmsCheck.status = "pending"
IsError(cmsCheck) == cmsCheck.status = "error"
\* cmsCheck.data?.isAdmin
DataIsAdmin(cmsCheck) ==
    IF cmsCheck.data = Undefined THEN FALSE ELSE cmsCheck.data.isAdmin

\* as if only a failed check were turned away
Render_IgnoreIsAdmin(session, cmsCheck) ==
    IF session = Undefined THEN "Spinner"
    ELSE IF session = Null THEN "Navigate /login"
    ELSE IF IsPending(cmsCheck) THEN "Spinner"
    ELSE IF IsError(cmsCheck) THEN "Access Denied"
    ELSE "children"

\* What CMSBarrier returns.
Render(session, cmsCheck) ==
    IF session = Undefined THEN "Spinner"
    ELSE IF session = Null THEN "Navigate /login"
    ELSE IF IsPending(cmsCheck) THEN "Spinner"
    ELSE IF IsError(cmsCheck) \/ ~DataIsAdmin(cmsCheck) THEN "Access Denied"
    ELSE "children"

\* The barrier in front of the CMS routes, its checkAccess request in slot 1,
\* and the writes.
NextUI ==
    \/ useSession
    \/ FetchCheckAccess(1)
    \/ protectedProcedure(1)
    \/ checkAccess(1)
    \/ ResolverQueryFails(1)
    \/ QueryResolves(1)
    \/ Write

SpecUI == Init /\ [][NextUI]_vars

\* Assignments the store is held at while calls overlap.
FixedAssignments ==
    {SetToBag({<<"U0001", "R2">>, <<"U0002", "R4">>}),
     SetToBag({<<"U0001", "R1">>, <<"U0002", "R3">>}),
     SetToBag({<<"U0001", "R4">>, <<"U0001", "R3">>})}

InitFixed ==
    /\ roles = SeedRoles
    /\ permissions = SeedPermissions
    /\ rolePermissions = SeedGrants
    /\ userRoles \in FixedAssignments
    /\ calls = [c \in CallIds |-> IdleCall]
    /\ nWrites = 0
    /\ lastRevoked = Null
    /\ rejected = FALSE
    /\ barrier = NewBarrier

\* Guarded calls in every slot, overlapping; nothing writes.
NextFixed == \E c \in CallIds : Step(c)

SpecFixed == InitFixed /\ [][NextFixed]_vars

\* ------------------------------------------------------------ provisioning
\* Ids and names that provisioning may add to the seed.
NewRoleIds == {"R6"}
NewRoleNames == {ROLE_NAMES.EDITOR, "auditor"}
NewPermissionIds == {"P3"}
NewPermissionNames == {PagesCreate, OrdersView}
AllRoleIds == RoleIds \cup NewRoleIds
AllPermissionIds == PermissionIds \cup NewPermissionIds

\* An insert the constraints reject changes nothing and is left out.
CreateRole(id, name) ==
    /\ nWrites < MaxWrites
    /\ roles' = InsertRole(roles, id, name)
    /\ roles' # roles
    /\ calls' = Touched(TRUE)
    /\ nWrites' = nWrites + 1
    /\ rejected' = FALSE
    /\ UNCHANGED <<permissions, rolePermissions, userRoles, lastRevoked, barrier>>

\* delete from roles where id = rid, with the cascades of both junctions
DeleteRole(rid) ==
    /\ nWrites < MaxWrites
    /\ rid \in {r.id : r \in roles}
    /\ roles' = {r \in roles : r.id # rid}
    /\ userRoles' = CascadeUserRoles(userRoles, rid)
    /\ rolePermissions' = CascadeGrantsOfRole(rolePermissions, rid)
    /\ lastRevoked' =
          LET gone == {k \in DOMAIN userRoles : k[2] = rid}
          IN  IF gone = {} THEN lastRevoked
              ELSE LET k == CHOOSE x \in gone : TRUE
                   IN  [userId |-> k[1], roleId |-> k[2]]
    /\ calls' = Touched(TRUE)
    /\ nWrites' = nWrites + 1
    /\ rejected' = FALSE
    /\ UNCHANGED <<permissions, barrier>>

CreatePermission(id, name) ==
    /\ nWrites < MaxWrites
    /\ permissions' = InsertPermission(permissions, id, name)
    /\ permissions' # permissions
    /\ calls' = Touched(TRUE)
    /\ nWrites' = nWrites + 1
    /\ rejected' = FALSE
    /\ UNCHANGED <<roles, rolePermissions, userRoles, lastRevoked, barrier>>

DeletePermission(pid) ==
    /\ nWrites < MaxWrites
    /\ pid \in {x.id : x \in permissions}
    /\ permissions' = {x \in permissions : x.id # pid}
    /\ rolePermissions' = CascadeGrantsOfPermission(rolePermissions, pid)
    /\ calls' = Touched(TRUE)
    /\ nWrites' = nWrites + 1
    /\ rejected' = FALSE
    /\ UNCHANGED <<roles, userRoles, lastRevoked, barrier>>

\* The principal whose assignments change, and the roles whose grants change.
ProvUser == "U0001"
ProvGrantRoles == {"R3", "R6"}

Provision ==
    \/ \E id \in NewRoleIds, name \in NewRoleNames : CreateRole(id, name)
    \/ \E rid \in AllRoleIds : DeleteRole(rid)
    \/ \E id \in NewPermissionIds, name \in NewPermissionNames :
            CreatePermission(id, name)
    \/ \E pid \in AllPermissionIds : DeletePermission(pid)
    \/ \E rid \in AllRoleIds : AssignRole(ProvUser, rid)
    \/ \E rid \in AllRoleIds : RevokeRole(ProvUser, rid)
    \/ \E rid \in ProvGrantRoles, pid \in AllPermissionIds :
            GrantPermission(rid, pid)
    \/ \E rid \in ProvGrantRoles, pid \in AllPermissionIds :
            RevokeGrant(rid, pid)

StepProv(c) ==
    \/ \E kind \in {"admin", "checkAccess"} :
            StartCall(c, kind, ProvUser, PagesCreate)
    \/ StartCall(c, "permission", ProvUser, PagesCreate)
    \/ protectedProcedure(c)
    \/ adminProcedure(c)
    \/ createPermissionProcedure(c)
    \/ checkAccess(c)
    \/ WrappedAction(c)

\* The checks of one principal while roles and permissions are provisioned
\* and deleted, assigned and granted.
NextProv == StepProv(1) \/ Provision

SpecProv == Init /\ [][NextProv]_vars

\* -------------------------------------------------- calls raced by writes
\* On one state of user_roles (ur) and role_permissions (rp), uid holds an
\* admin role and holds super_admin or a role granted p.
Justifies(ur, rp, uid, p) ==
    LET names == RoleQuery(ur, roles, uid)
    IN  /\ IsAdmin(names)
        /\ \/ BagIn(ROLE_NAMES.SUPER_ADMIN, names)
           \/ HasPermissionLength(ur, roles, rp, permissions, uid, p) # 0

\* What adminProcedure, then createPermissionProcedure, come to for uid on one
\* state of user_roles (ur) and role_permissions (rp).
DecideOn(ur, rp, kind, uid, p) ==
    LET names == RoleQuery(ur, roles, uid)
    IN  IF ~IsAdmin(names) THEN AdminRequired
        ELSE IF kind = "admin" THEN Ok
        ELSE IF BagIn(ROLE_NAMES.SUPER_ADMIN, names) THEN Ok
        ELSE IF HasPermissionLength(ur, roles, rp, permissions, uid, p) = 0
        THEN PermissionRequired(p)
        ELSE Ok

\* A permission-gated request arrives; the store it arrives at is looked at.
StartJust(c) ==
    /\ calls[c].pc \in {"idle", "done"}
    /\ \E headers \in Users, requiredPermission \in PermissionNames :
            calls' = [calls EXCEPT ![c] =
                [NewCall(c, "permission", headers, requiredPermission) EXCEPT
                    !.justified = Justifies(userRoles, rolePermissions,
                                            headers, requiredPermission)]]
    /\ UNCHANGED <<store, history, barrier>>

\* A write at any time; while the call has not decided, the store the write
\* leaves is looked at too.
WriteJust(c) ==
    /\ nWrites < MaxWrites
    /\ \E op \in {"assign", "revoke", "grant", "revokeGrant"},
          uid \in Users, rid \in RoleIds, pid \in PermissionIds :
          /\ userRoles' =
                CASE op = "assign" -> InsertUserRole(userRoles, roles, uid, rid)
                  [] op = "revoke" -> DeleteUserRole(userRoles, uid, rid)
                  [] OTHER -> userRoles
          /\ rolePermissions' =
                CASE op = "grant" ->
                        InsertRolePermission(rolePermissions, roles, permissions,
                                             rid, pid)
                  [] op = "revokeGrant" ->
                        DeleteRolePermission(rolePermissions, rid, pid)
                  [] OTHER -> rolePermissions
          /\ lastRevoked' = IF op = "revoke"
                            THEN [userId |-> uid, roleId |-> rid] ELSE lastRevoked
    /\ <<userRoles', rolePermissions'>> # <<userRoles, rolePermissions>>
    /\ calls' = [calls EXCEPT ![c] =
            [@ EXCEPT
                !.dirty = @ \/ calls[c].pc # "idle",
                !.justified =
                    IF calls[c].pc \in {"session", "roles", "perm"}
                    THEN @ \/ Justifies(userRoles', rolePermissions',
                                        calls[c].headers,
                                        calls[c].requiredPermission)
                    ELSE @]]
    /\ nWrites' = nWrites + 1
    /\ rejected' = FALSE
    /\ UNCHANGED <<roles, permissions, barrier>>

NextJust ==
    \/ StartJust(1)
    \/ protectedProcedure(1)
    \/ adminProcedure(1)
    \/ createPermissionProcedure(1)
    \/ WrappedAction(1)
    \/ WriteJust(1)

SpecJust == Init /\ [][NextJust]_vars

\* ------------------------------------------------- the incoming context
\* router.createCaller(context): the caller hands in the context object, and
\* it may already hold a session key.
StartWithContext(c) ==
    /\ calls[c].pc \in {"idle", "done"}
    /\ \E kind \in Kinds, headers \in Headers,
          session \in {Undefined} \cup {GetSession(u) : u \in Users} :
            calls' = [calls EXCEPT ![c] =
                [NewCall(c, kind, headers, PagesCreate) EXCEPT
                    !.ctx = [NewContext EXCEPT !.session = session]]]
    /\ UNCHANGED <<store, history, barrier>>

NextCtx ==
    \/ StartWithContext(1)
    \/ protectedProcedure(1)
    \/ adminProcedure(1)
    \/ createPermissionProcedure(1)
    \/ checkAccess(1)
    \/ listRoles(1)
    \/ WrappedAction(1)

SpecCtx == InitFixed /\ [][NextCtx]_vars

\* ------------------------------------------- decisions as the rows change
RowRoleIds == {"R1", "R2", "R3", "R4"}
RowCaller == "U0001"

RowWrite ==
    \/ \E uid \in Users, rid \in RowRoleIds : AssignRole(uid, rid)
    \/ \E uid \in Users, rid \in RowRoleIds : RevokeRole(uid, rid)
    \/ \E rid \in RowRoleIds, pid \in PermissionIds : GrantPermission(rid, pid)
    \/ \E rid \in RowRoleIds, pid \in PermissionIds : RevokeGrant(rid, pid)

StepRows(c) ==
    \/ StartCall(c, "admin", RowCaller, PagesCreate)
    \/ \E requiredPermission \in {PagesCreate, ProductsDelete} :
            StartCall(c, "permission", RowCaller, requiredPermission)
    \/ protectedProcedure(c)
    \/ adminProcedure(c)
    \/ createPermissionProcedure(c)
    \/ WrappedAction(c)

\* The gated calls of one principal while rows of both principals and of
\* four roles come and go.
NextRows == StepRows(1) \/ RowWrite

SpecRows == Init /\ [][NextRows]_vars

\* One guarded call after another on a store held fixed; a query may fail.
NextLive ==
    \/ Step(1)
    \/ RoleQueryFails(1)
    \/ PermissionQueryFails(1)
    \/ ResolverQueryFails(1)

\* The awaited session lookup or query of a call under way returns, with a
\* result or with an error.
Returns(c) ==
    \/ protectedProcedure(c)
    \/ adminProcedure(c)
    \/ createPermissionProcedure(c)
    \/ checkAccess(c)
    \/ listRoles(c)
    \/ WrappedAction(c)
    \/ RoleQueryFails(c)
    \/ PermissionQueryFails(c)
    \/ ResolverQueryFails(c)

SpecLive == InitFixed /\ [][NextLive]_vars /\ WF_vars(Returns(1))

\* Permission-gated calls created with a provisioned name or one close to it.
StepExact(c) ==
    \/ \E headers \in Users, requiredPermission \in LookalikeNames \cup {PagesCreate} :
            StartCall(c, "permission", headers, requiredPermission)
    \/ protectedProcedure(c)
    \/ adminProcedure(c)
    \/ createPermissionProcedure(c)
    \/ WrappedAction(c)

NextExact == StepExact(1) \/ Write

SpecExact == Init /\ [][NextExact]_vars

\* Calls in every slot: guarded calls overlap one another and the writes.
NextConc == (\E c \in CallIds : Step(c)) \/ Write

SpecConc == Init /\ [][NextConc]_vars

\* ============================================================ properties
\* What the store says about a principal, read off the tables directly.
AdminTier == {"super_admin", "editor", "content_manager"}
SuperAdmin == "super_admin"

Held(uid) == {r \in roles : BagIn(<<uid, r.id>>, userRoles)}
HeldNames(uid) == {r.name : r \in Held(uid)}
GrantsOf(rid) ==
    {pm.name : pm \in {x \in permissions : <<rid, x.id>> \in rolePermissions}}
Granted(uid, p) == \E r \in Held(uid) : p \in GrantsOf(r.id)

\* A call that has ended, with a session, and no store change since it began.
Settled(c) ==
    /\ calls[c].pc = "done"
    /\ calls[c].headers \in Users
    /\ ~calls[c].dirty
Allowed(c) == calls[c].outcome = Ok /\ calls[c].executed
Forbidden(c) == calls[c].outcome.code = "FORBIDDEN" /\ ~calls[c].executed

\* C1: a call whose request resolves to no session ends UNAUTHORIZED; its
\* action never runs and it issues no role query and no permission query.
C1_NoSessionShortCircuits ==
    \A c \in CallIds :
        (calls[c].pc # "idle" /\ GetSession(calls[c].headers) = Null) =>
            /\ calls[c].pc \in {"session", "done"}
            /\ calls[c].pc = "done" => calls[c].outcome = Unauthorized
            /\ ~calls[c].executed
            /\ calls[c].roleQueries = 0
            /\ calls[c].permQueries = 0
            /\ calls[c].data = Undefined

C1_Witness ==
    \E c \in CallIds :
        /\ calls[c].pc = "done" /\ calls[c].headers = Anonymous
        /\ calls[c].kind = "permission"
        /\ calls[c].outcome = Unauthorized
        /\ \E uid \in Users : SuperAdmin \in HeldNames(uid)

\* C2: in an admin-gated or permission-gated call the action runs only once
\* every decision of the chain has allowed; a denied call ends FORBIDDEN (or
\* UNAUTHORIZED) with the action not run.
DecidedAllow(c) ==
    /\ calls[c].ctx.session = GetSession(calls[c].headers)
    /\ calls[c].roleQueries = 1
    /\ calls[c].ctx.userRoles # Undefined
    /\ BagToSet(calls[c].ctx.userRoles) \cap AdminTier # {}
    /\ calls[c].kind = "permission" =>
          \/ SuperAdmin \in BagToSet(calls[c].ctx.userRoles)
          \/ calls[c].permQueries = 1

Principal(c) == calls[c].headers
PermissionCall(c) == calls[c].kind = "permission" /\ Settled(c)

\* C3 as stated: the permission-gated procedure allows exactly when the
\* principal holds super_admin or a role granted the permission, whether or
\* not it holds an admin-tier role.
C3_PermissionIndependentOfAdmin ==
    \A c \in CallIds :
        PermissionCall(c) =>
            (Allowed(c) <=>
                \/ SuperAdmin \in HeldNames(Principal(c))
                \/ Granted(Principal(c), calls[c].requiredPermission))

\* C3 amended: the permission-gated procedure allows exactly when the
\* principal holds an admin-tier role and (holds super_admin or holds a role
\* granted the permission); every other call is denied.
C3_PermissionBehindAdminGate ==
    \A c \in CallIds :
        PermissionCall(c) =>
            /\ Allowed(c) <=>
                  /\ HeldNames(Principal(c)) \cap AdminTier # {}
                  /\ \/ SuperAdmin \in HeldNames(Principal(c))
                     \/ Granted(Principal(c), calls[c].requiredPermission)
            /\ ~Allowed(c) => Forbidden(c)

\* a principal with a granted permission but no admin-tier role is denied
C3_Witness ==
    \E c \in CallIds :
        /\ PermissionCall(c)
        /\ Granted(Principal(c), calls[c].requiredPermission)
        /\ HeldNames(Principal(c)) \cap AdminTier = {}
        /\ calls[c].outcome = AdminRequired

\* C4: the admin-gated procedure allows exactly when the principal's role
\* names meet {super_admin, editor, content_manager}; otherwise it ends
\* FORBIDDEN "Admin access required".
C4_AdminDecision ==
    \A c \in CallIds :
        (calls[c].kind = "admin" /\ Settled(c)) =>
            IF HeldNames(Principal(c)) \cap AdminTier # {}
            THEN Allowed(c)
            ELSE Forbidden(c) /\ calls[c].outcome = AdminRequired

C4_Witness ==
    \E c \in CallIds :
        /\ calls[c].kind = "admin" /\ Settled(c)
        /\ HeldNames(Principal(c)) = {ROLE_NAMES.CUSTOMER}
        /\ calls[c].outcome = AdminRequired

\* Two distinct roles of the principal, one granted only A, the other only B.
DisjointPair(uid, A, B) ==
    \E r1 \in Held(uid), r2 \in Held(uid) :
        /\ r1 # r2 /\ A # B
        /\ GrantsOf(r1.id) = {A}
        /\ GrantsOf(r2.id) = {B}

\* C5 as stated: a principal holding two roles, one granted only A and the
\* other only B, is allowed both A and B.
C5_UnionAnyRoles ==
    \A c \in CallIds, A \in PermissionNames, B \in PermissionNames :
        (PermissionCall(c) /\ DisjointPair(Principal(c), A, B)
            /\ calls[c].requiredPermission \in {A, B}) => Allowed(c)

\* C5 amended: the same, for a principal at least one of whose roles is
\* admin-tier.
C5_UnionBehindAdminGate ==
    \A c \in CallIds, A \in PermissionNames, B \in PermissionNames :
        (PermissionCall(c) /\ DisjointPair(Principal(c), A, B)
            /\ calls[c].requiredPermission \in {A, B}
            /\ HeldNames(Principal(c)) \cap AdminTier # {}) => Allowed(c)

\* allowed through the grant of the role that is not admin-tier
C5_Witness ==
    \E c \in CallIds :
        /\ PermissionCall(c) /\ Allowed(c)
        /\ HeldNames(Principal(c)) = {ROLE_NAMES.EDITOR, "guest"}
        /\ DisjointPair(Principal(c), PagesCreate, ProductsDelete)
        /\ calls[c].requiredPermission = ProductsDelete

\* C6: a principal holding super_admin is allowed every permission name, with
\* no role_permissions row for super_admin and no permissions row of that name.
C6_SuperAdminBypass ==
    \A c \in CallIds :
        (PermissionCall(c) /\ SuperAdmin \in HeldNames(Principal(c))) => Allowed(c)

C6_Witness ==
    \E c \in CallIds :
        /\ PermissionCall(c) /\ Allowed(c)
        /\ HeldNames(Principal(c)) = {SuperAdmin}
        /\ \A r \in Held(Principal(c)) : GrantsOf(r.id) = {}
        /\ calls[c].requiredPermission \notin {pm.name : pm \in permissions}

\* C7: for a principal with an admin-tier role but not super_admin, the
\* permission-gated procedure allows exactly when one of its roles is granted
\* the permission, and otherwise ends FORBIDDEN "Permission '<p>' required".
C7_AdminTierNeedsGrant ==
    \A c \in CallIds :
        (PermissionCall(c)
            /\ HeldNames(Principal(c)) \cap AdminTier # {}
            /\ SuperAdmin \notin HeldNames(Principal(c))) =>
            IF Granted(Principal(c), calls[c].requiredPermission)
            THEN Allowed(c)
            ELSE /\ Forbidden(c)
                 /\ calls[c].outcome = PermissionRequired(calls[c].requiredPermission)

C7_Witness ==
    \E c \in CallIds :
        /\ PermissionCall(c)
        /\ HeldNames(Principal(c)) = {ROLE_NAMES.EDITOR}
        /\ GrantsOf("R2") = {PagesCreate}
        /\ calls[c].requiredPermission = ProductsDelete
        /\ calls[c].outcome = PermissionRequired(ProductsDelete)

\* A role yields a permission by a grant, or by being super_admin.
Yields(r, p) == r.name = SuperAdmin \/ p \in GrantsOf(r.id)

\* The row removed last was the principal's, for a role that yields the
\* required permission, and no role the principal still holds yields it.
RevokedOnlySource(c) ==
    /\ lastRevoked # Null
    /\ lastRevoked.userId = Principal(c)
    /\ \E r \in roles :
          r.id = lastRevoked.roleId /\ Yields(r, calls[c].requiredPermission)
    /\ \A r \in Held(Principal(c)) : ~Yields(r, calls[c].requiredPermission)

\* C8: once the user_roles row of the only role yielding permission A to a
\* principal is removed, a permission-gated call for A begun after the
\* removal is denied, also when the call before it was allowed.
C8_NoRetainedGrant ==
    \A c \in CallIds :
        (PermissionCall(c) /\ RevokedOnlySource(c)) => Forbidden(c)

\* allowed, then the row removed, then denied, the principal still admin-tier
C8_Witness ==
    \E c \in CallIds :
        /\ PermissionCall(c) /\ RevokedOnlySource(c)
        /\ calls[c].prevAllowed
        /\ HeldNames(Principal(c)) \cap AdminTier # {}
        /\ calls[c].outcome = PermissionRequired(calls[c].requiredPermission)

\* What a principal's decisions rest on, for two states of user_roles.
SameDecisions(ur1, ur2) ==
    \A uid \in Users :
        /\ RoleQuery(ur1, roles, uid) = RoleQuery(ur2, roles, uid)
        /\ IsAdmin(RoleQuery(ur1, roles, uid)) = IsAdmin(RoleQuery(ur2, roles, uid))
        /\ \A p \in PermissionNames :
              HasPermissionLength(ur1, roles, rolePermissions, permissions, uid, p)
                = HasPermissionLength(ur2, roles, rolePermissions, permissions, uid, p)

\* C9: inserting a (userId, roleId) pair that is already in user_roles leaves
\* the table as it was, and with it the resolved roles and every decision; a
\* pair is never held twice, and one removal of a pair leaves no row of it and
\* the role no longer resolved for the user.
C9_IdempotentMembership ==
    /\ [][\A uid \in Users, rid \in RoleIds :
            (AssignRole(uid, rid) /\ BagIn(<<uid, rid>>, userRoles)) =>
                /\ userRoles' = userRoles
                /\ SameDecisions(userRoles, userRoles')]_vars
    /\ [][\A uid \in Users, rid \in RoleIds :
            RevokeRole(uid, rid) =>
                /\ ~BagIn(<<uid, rid>>, userRoles')
                /\ \A r \in roles :
                      r.id = rid =>
                          ~BagIn(r.name, RoleQuery(userRoles', roles', uid))]_vars
    /\ [](\A k \in DOMAIN userRoles : userRoles[k] = 1)

\* an insert of a held pair has just been turned down
C9_Witness ==
    /\ rejected
    /\ \E uid \in Users : Held(uid) # {}
    /\ \A k \in DOMAIN userRoles : userRoles[k] = 1

\* C10: checkAccess with a session never ends FORBIDDEN; it returns the names
\* of exactly the roles assigned to the principal, each once, and isAdmin
\* true exactly when one of them is super_admin, editor or content_manager.
C10_CheckAccess ==
    \A c \in CallIds :
        calls[c].kind = "checkAccess" =>
            /\ calls[c].outcome.code # "FORBIDDEN"
            /\ Settled(c) =>
                  /\ Allowed(c)
                  /\ calls[c].data.roles = SetToBag(HeldNames(Principal(c)))
                  /\ calls[c].data.isAdmin =
                        (HeldNames(Principal(c)) \cap AdminTier # {})

\* a principal with no user_roles row, beside one who is admin
C10_Witness ==
    \E c \in CallIds :
        /\ calls[c].kind = "checkAccess" /\ Settled(c)
        /\ \A k \in DOMAIN userRoles : k[1] # Principal(c)
        /\ \E uid \in Users : HeldNames(uid) \cap AdminTier # {}
        /\ calls[c].data = [isAdmin |-> FALSE, roles |-> EmptyBag]

\* C11: a query of a guarded call that fails ends the call with
\* INTERNAL_SERVER_ERROR: not FORBIDDEN, not UNAUTHORIZED, not a deny drawn
\* from an empty result, and the wrapped action does not run.
C11_StoreFailureIsInternal ==
    \A c \in CallIds :
        /\ calls[c].storeFailed =>
              /\ calls[c].pc = "done"
              /\ calls[c].outcome = Internal
              /\ ~calls[c].executed
              /\ calls[c].data = Undefined
        /\ calls[c].outcome.code \in {"FORBIDDEN", "UNAUTHORIZED", "OK"} =>
              ~calls[c].storeFailed

\* the permission query fails for a principal past the admin gate
C11_Witness ==
    \E c \in CallIds :
        /\ calls[c].storeFailed /\ calls[c].kind = "permission"
        /\ calls[c].permQueries = 1
        /\ calls[c].outcome = Internal
        /\ ~Granted(Principal(c), calls[c].requiredPermission)

GrantedNames(uid) == UNION {GrantsOf(r.id) : r \in Held(uid)}

\* C12: without super_admin, a permission-gated call for p is allowed only
\* when a role of the principal is granted a permission named exactly p; a
\* granted name that is a prefix of p, or has p's resource, does not count.
C12_ExactNameMatch ==
    \A c \in CallIds :
        (PermissionCall(c) /\ SuperAdmin \notin HeldNames(Principal(c))) =>
            /\ Allowed(c) => calls[c].requiredPermission \in GrantedNames(Principal(c))
            /\ calls[c].requiredPermission \notin GrantedNames(Principal(c)) =>
                  Forbidden(c)

\* an admin-tier principal granted a prefix of the required name is denied
C12_Witness ==
    \E c \in CallIds :
        /\ PermissionCall(c)
        /\ HeldNames(Principal(c)) \cap AdminTier # {}
        /\ \E q \in GrantedNames(Principal(c)) :
              /\ IsPrefix(q, calls[c].requiredPermission)
              /\ q # calls[c].requiredPermission
        /\ calls[c].outcome = PermissionRequired(calls[c].requiredPermission)

\* C13: listRoles is admin only: the role list goes only to a caller with a
\* session who holds an admin-tier role.
C13_ListRolesAdminOnly ==
    \A c \in CallIds :
        (calls[c].kind = "listRoles" /\ Settled(c) /\ calls[c].executed) =>
            HeldNames(Principal(c)) \cap AdminTier # {}

\* The outcome of an admin-gated or permission-gated check made as a whole on
\* one state of user_roles (ur) and role_permissions (rp).
OutcomeOn(ur, rp, kind, uid, p) ==
    LET held == {r \in roles : BagIn(<<uid, r.id>>, ur)}
        granted == \E r \in held, pm \in permissions :
                        pm.name = p /\ <<r.id, pm.id>> \in rp
    IN  IF {r.name : r \in held} \cap AdminTier = {} THEN AdminRequired
        ELSE IF kind = "admin" THEN Ok
        ELSE IF SuperAdmin \in {r.name : r \in held} \/ granted THEN Ok
        ELSE PermissionRequired(p)

\* A finished check that one write raced; the tables now are the post state.
Raced(c) ==
    /\ calls[c].pc = "done" /\ calls[c].kind \in {"admin", "permission"}
    /\ calls[c].headers \in Users
    /\ calls[c].before # Undefined
OutcomePre(c) ==
    OutcomeOn(calls[c].before.userRoles, calls[c].before.rolePermissions,
              calls[c].kind, Principal(c), calls[c].requiredPermission)
OutcomePost(c) ==
    OutcomeOn(userRoles, rolePermissions,
              calls[c].kind, Principal(c), calls[c].requiredPermission)

AloneOutcome(c) ==
    IF calls[c].headers \notin Users THEN Unauthorized
    ELSE IF calls[c].kind \in {"admin", "permission"} THEN OutcomePost(c)
    ELSE Ok
AloneData(c) ==
    IF AloneOutcome(c) # Ok THEN Undefined
    ELSE IF calls[c].kind = "checkAccess"
    THEN [isAdmin |-> HeldNames(Principal(c)) \cap AdminTier # {},
          roles |-> SetToBag(HeldNames(Principal(c)))]
    ELSE IF calls[c].kind = "listRoles" THEN [allRoles |-> roles]
    ELSE [ctx |->
            [session |-> GetSession(calls[c].headers),
             userRoles |-> IF calls[c].kind = "protected" THEN Undefined
                           ELSE SetToBag(HeldNames(Principal(c)))]]

\* C15: with the store held fixed, a guarded call that overlaps other calls
\* ends as it does alone, and what it holds in ctx is its own session and its
\* own principal's roles, never another call's.
C15_CallsShareNothing ==
    \A c \in CallIds :
        /\ calls[c].pc = "done" =>
              /\ calls[c].outcome = AloneOutcome(c)
              /\ calls[c].data = AloneData(c)
        /\ calls[c].ctx.session \in {Undefined, GetSession(calls[c].headers)}
        /\ calls[c].ctx.userRoles # Undefined =>
              calls[c].ctx.userRoles = SetToBag(HeldNames(Principal(c)))

\* two principals' calls have both ended, one allowed and one denied
C15_Witness ==
    \E c \in CallIds, d \in CallIds :
        /\ c # d
        /\ calls[c].pc = "done" /\ calls[d].pc = "done"
        /\ calls[c].kind = "permission" /\ calls[d].kind = "permission"
        /\ calls[c].headers \in Users /\ calls[d].headers \in Users
        /\ calls[c].headers # calls[d].headers
        /\ calls[c].requiredPermission = calls[d].requiredPermission
        /\ calls[c].outcome = Ok
        /\ calls[d].outcome = AdminRequired

Rendered == Render(barrier.session, barrier.cmsCheck)

\* C16: CMSBarrier renders its children only with a session that is resolved
\* and not null and a checkAccess query that succeeded with isAdmin true;
\* with the session null or loading it renders no children and issues no
\* checkAccess request.
C16_ChildrenOnlyForAdmin ==
    /\ [](Rendered = "children" =>
            /\ Enabled(barrier.session)
            /\ barrier.cmsCheck.status = "success"
            /\ barrier.cmsCheck.data.isAdmin)
    /\ [](~Enabled(barrier.session) => Rendered # "children")
    /\ [][~Enabled(barrier.session) =>
            /\ barrier'.fetches = barrier.fetches
            /\ (calls[1].pc = "idle" => calls'[1].pc = "idle")]_vars

C16_Witness == Rendered = "children" /\ barrier.fetches = 1

\* C17: CMSBarrier sends a caller without a session to the login page,
\* whether the session is missing on the client or at the server's
\* checkAccess call, and shows Access Denied exactly for an authenticated
\* caller who is not admin, never for an UNAUTHORIZED or internal failure of
\* the check.
C17_DeniedOnlyForNonAdmin ==
    /\ barrier.session = Null => Rendered = "Navigate /login"
    /\ (Enabled(barrier.session) /\ barrier.cmsCheck.error = Unauthorized) =>
            Rendered = "Navigate /login"
    /\ Rendered = "Access Denied" <=>
            /\ Enabled(barrier.session)
            /\ barrier.cmsCheck.status = "success"
            /\ ~barrier.cmsCheck.data.isAdmin

\* The role names a call resolved in adminProcedure.
ResolvedNames(c) == BagToSet(calls[c].ctx.userRoles)
GrantedToNames(names, p) ==
    \E r \in roles : r.name \in names /\ p \in GrantsOf(r.id)
\* The step in which adminProcedure, or createPermissionProcedure, decides.
AdminStep(c) == calls[c].pc = "roles" /\ calls'[c].pc # "roles"
PermissionStep(c) == calls[c].pc = "perm" /\ calls'[c].pc # "perm"

C19_BypassReadsNothing ==
    /\ [](\A c \in CallIds :
            (/\ calls[c].kind = "permission"
             /\ calls[c].ctx.userRoles # Undefined
             /\ SuperAdmin \in ResolvedNames(c)) =>
                /\ calls[c].permQueries = 0
                /\ calls[c].roleQueries = 1
                /\ calls[c].pc = "done" => calls[c].outcome = Ok)
    /\ [][\A c \in CallIds :
            (PermissionStep(c) /\ SuperAdmin \in ResolvedNames(c)) =>
                /\ calls'[c].pc = "action"
                /\ calls'[c].permQueries = 0
                /\ calls'[c].roleQueries = 1]_vars

\* allowed with super_admin resolved, the assignment revoked meanwhile and
\* the permission name not provisioned
C19_Witness ==
    \E c \in CallIds :
        /\ calls[c].pc = "done" /\ calls[c].kind = "permission"
        /\ calls[c].outcome = Ok /\ calls[c].executed
        /\ ResolvedNames(c) = {SuperAdmin}
        /\ calls[c].permQueries = 0 /\ calls[c].roleQueries = 1
        /\ calls[c].requiredPermission = OrdersView
        /\ HeldNames(Principal(c)) = {}

\* C20: in a permission-gated call the admin gate comes first: a principal
\* whose roles at the role query include no admin-tier role ends FORBIDDEN
\* "Admin access required" whatever its roles are granted, with no permission
\* query; every call that reaches the permission step, or is allowed, has an
\* admin-tier role in the role names it resolved.
C20_AdminGateFirst ==
    /\ [](\A c \in CallIds :
            calls[c].kind = "permission" =>
                /\ (calls[c].permQueries > 0 \/ calls[c].pc \in {"perm", "action"}
                        \/ calls[c].outcome = Ok) =>
                      /\ calls[c].ctx.userRoles # Undefined
                      /\ IsAdmin(calls[c].ctx.userRoles)
                      /\ ResolvedNames(c) \cap AdminTier # {}
                /\ (Settled(c) /\ HeldNames(Principal(c)) \cap AdminTier = {}) =>
                      /\ calls[c].outcome = AdminRequired
                      /\ calls[c].permQueries = 0)
    /\ [][\A c \in CallIds :
            (/\ AdminStep(c) /\ calls[c].kind = "permission"
             /\ HeldNames(Principal(c)) \cap AdminTier = {}) =>
                /\ calls'[c].pc = "done"
                /\ calls'[c].outcome = AdminRequired
                /\ calls'[c].permQueries = 0]_vars

\* a customer whose role is granted the permission, turned away at the gate
C20_Witness ==
    \E c \in CallIds :
        /\ PermissionCall(c)
        /\ HeldNames(Principal(c)) = {"customer"}
        /\ Granted(Principal(c), calls[c].requiredPermission)
        /\ calls[c].outcome = AdminRequired
        /\ calls[c].permQueries = 0 /\ calls[c].roleQueries = 1

\* C21: on Allow the wrapped action of an admin-gated or permission-gated
\* call is handed, as ctx.userRoles, the role names the role query of that
\* same call returned for its own principal: never an empty set, and never
\* names resolved for another principal or by an earlier call.
C21_ActionGetsResolvedRoles ==
    /\ [](\A c \in CallIds :
            (calls[c].executed /\ calls[c].kind \in {"admin", "permission"}) =>
                /\ calls[c].data.ctx.userRoles = calls[c].ctx.userRoles
                /\ calls[c].data.ctx.userRoles # Undefined
                /\ BagToSet(calls[c].data.ctx.userRoles) # {}
                /\ IsAdmin(calls[c].data.ctx.userRoles)
                /\ calls[c].roleQueries = 1
                /\ ~calls[c].dirty =>
                      BagToSet(calls[c].data.ctx.userRoles) =
                          HeldNames(Principal(c)))
    /\ [][\A c \in CallIds :
            /\ (AdminStep(c) /\ calls'[c].pc # "done") =>
                  calls'[c].ctx.userRoles =
                      RoleQuery(userRoles, roles, Principal(c))
            /\ (calls[c].pc \in {"perm", "action"} /\ calls'[c].pc # "session") =>
                  calls'[c].ctx = calls[c].ctx]_vars

\* a second call in the slot, allowed, whose action gets both names its
\* principal holds, while the other principal holds other roles
C21_Witness ==
    \E c \in CallIds :
        /\ calls[c].executed /\ calls[c].kind = "permission" /\ ~calls[c].dirty
        /\ calls[c].prevAllowed
        /\ BagToSet(calls[c].data.ctx.userRoles) = {ROLE_NAMES.EDITOR, "customer"}
        /\ \E u \in Users \ {Principal(c)} : HeldNames(u) = {SuperAdmin}

\* How far a call has come: Start (session), AuthenticatedPending (roles,
\* perm), Decided (action, done).
Rank(pc) ==
    CASE pc = "idle" -> 0
      [] pc = "session" -> 1
      [] pc = "roles" -> 2
      [] pc = "perm" -> 3
      [] pc = "action" -> 4
      [] pc = "done" -> 5

TerminalOutcomes(c) ==
    {Unauthorized, AdminRequired,
     PermissionRequired(calls[c].requiredPermission), Internal, Ok}

\* C22: a guarded call whose session lookup and queries return ends, with
\* exactly one of UNAUTHORIZED, FORBIDDEN admin, FORBIDDEN permission,
\* INTERNAL_SERVER_ERROR or its action executed; it only moves forward through
\* session, roles, permission, action, and issues no query a second time.
C22_EndsOnceInOrder ==
    /\ [](\A c \in CallIds :
            /\ calls[c].pc = "done" =>
                  /\ calls[c].outcome \in TerminalOutcomes(c)
                  /\ calls[c].outcome = Ok <=> calls[c].executed
                  /\ calls[c].outcome = Internal <=> calls[c].storeFailed
            /\ calls[c].pc # "done" =>
                  calls[c].outcome = Pending /\ ~calls[c].executed
            /\ calls[c].roleQueries <= 1 /\ calls[c].permQueries <= 1)
    /\ [][\A c \in CallIds :
            calls'[c] # calls[c] =>
                \/ Rank(calls'[c].pc) > Rank(calls[c].pc)
                \/ calls[c].pc = "done" /\ calls'[c].pc = "session"]_vars
    /\ \A c \in CallIds :
            (calls[c].pc \notin {"idle", "done"}) ~> (calls[c].pc = "done")

\* a call that went through every step and was denied at the last
C22_Witness ==
    \E c \in CallIds :
        /\ calls[c].pc = "done" /\ calls[c].kind = "permission"
        /\ calls[c].outcome = PermissionRequired(calls[c].requiredPermission)
        /\ calls[c].roleQueries = 1 /\ calls[c].permQueries = 1
        /\ ~calls[c].executed /\ ~calls[c].storeFailed
        /\ userRoles \in FixedAssignments /\ nWrites = 0

\* Each name once in what the role query returns.
NoDuplicate(names) == \A n \in BagToSet(names) : CopiesIn(n, names) = 1

\* C23: in every store reached by provisioning, assignment and revocation
\* the role names returned for a principal (checkAccess.roles, ctx.userRoles)
\* hold each name once, and none when the principal has no user_roles row.
C23_RoleNamesOnce ==
    /\ \A r1 \in roles, r2 \in roles :
            (r1.name = r2.name \/ r1.id = r2.id) => r1 = r2
    /\ \A x1 \in permissions, x2 \in permissions :
            (x1.name = x2.name \/ x1.id = x2.id) => x1 = x2
    /\ \A uid \in Users :
            /\ NoDuplicate(RoleQuery(userRoles, roles, uid))
            /\ {k \in DOMAIN userRoles : k[1] = uid} = {} =>
                  RoleQuery(userRoles, roles, uid) = EmptyBag
    /\ \A c \in CallIds :
            /\ calls[c].ctx.userRoles # Undefined =>
                  NoDuplicate(calls[c].ctx.userRoles)
            /\ (calls[c].kind = "checkAccess" /\ calls[c].executed) =>
                  NoDuplicate(calls[c].data.roles)
            /\ (/\ calls[c].kind = "checkAccess" /\ Settled(c)
                /\ {k \in DOMAIN userRoles : k[1] = Principal(c)} = {}) =>
                  /\ calls[c].data.roles = EmptyBag
                  /\ ~calls[c].data.isAdmin

\* checkAccess returns two names, one of a role provisioned after the seed
C23_Witness ==
    \E c \in CallIds :
        /\ calls[c].kind = "checkAccess" /\ Settled(c)
        /\ BagToSet(calls[c].data.roles) = {ROLE_NAMES.EDITOR, "auditor"}
        /\ NoDuplicate(calls[c].data.roles)

\* C24: deleting a role or a permission cascades to the junctions: every
\* user_roles row names an existing role and every role_permissions row an
\* existing role and an existing permission; once a role is deleted the role
\* query returns it for no principal and the permission query finds no row
\* through it.
C24_CascadeKeepsReferences ==
    /\ [](/\ \A k \in DOMAIN userRoles : k[2] \in {r.id : r \in roles}
          /\ \A g \in rolePermissions :
                /\ g[1] \in {r.id : r \in roles}
                /\ g[2] \in {x.id : x \in permissions})
    /\ [][\A r \in roles \ roles' : \A uid \in Users :
            /\ ~BagIn(r.name, RoleQuery(userRoles', roles', uid))
            /\ \A p \in PermissionNames :
                  \A row \in PermissionRows(userRoles', roles', rolePermissions',
                                            permissions', uid, p) :
                      row[2].id # r.id /\ row[1][2] # r.id /\ row[3][1] # r.id]_vars
    /\ [](\A c \in CallIds :
            (Settled(c) /\ calls[c].executed) =>
                /\ calls[c].kind = "checkAccess" =>
                      BagToSet(calls[c].data.roles) \subseteq {r.name : r \in roles}
                /\ calls[c].kind \in {"admin", "permission"} =>
                      ResolvedNames(c) \subseteq {r.name : r \in roles})

\* the editor role was deleted while the principal held it; the principal,
\* allowed before, is now turned away
C24_Witness ==
    \E c \in CallIds :
        /\ calls[c].kind = "permission" /\ Settled(c)
        /\ calls[c].outcome = AdminRequired
        /\ lastRevoked = [userId |-> Principal(c), roleId |-> "R2"]
        /\ "R2" \notin {r.id : r \in roles}
        /\ <<"R2", "P1">> \notin rolePermissions
        /\ HeldNames(Principal(c)) = {}

\* A step of a guarded call: it moves on, or issues a query.
CallMoves(c) ==
    \/ calls'[c].pc # calls[c].pc
    \/ calls'[c].roleQueries # calls[c].roleQueries
    \/ calls'[c].permQueries # calls[c].permQueries
    \/ calls'[c].outcome # calls[c].outcome

\* C25: every step of protectedProcedure, adminProcedure,
\* createPermissionProcedure, checkAccess and listRoles, whatever it ends
\* with, leaves roles, permissions, role_permissions and user_roles as they
\* were.
C25_GuardsOnlyRead ==
    [][\A c \in CallIds : CallMoves(c) => store' = store]_vars

\* a checkAccess call ended by a failing query; the store is the seed with
\* the one assignment written before the call
C25_Witness ==
    \E c \in CallIds :
        /\ calls[c].pc = "done" /\ calls[c].kind = "checkAccess"
        /\ calls[c].storeFailed /\ calls[c].outcome = Internal
        /\ ~calls[c].dirty
        /\ userRoles = SetToBag({<<Principal(c), "R4">>})
        /\ nWrites = 1
        /\ roles = SeedRoles /\ permissions = SeedPermissions
        /\ rolePermissions = SeedGrants

\* C26: every Allow of a permission-gated call has a store state between
\* the call's start and its decision in which the principal at once held an
\* admin role and held super_admin or a role granted the permission, however
\* assignments, revocations and grants fall between the call's two reads.
C26_AllowHasOneState ==
    \A c \in CallIds :
        (/\ calls[c].kind = "permission"
         /\ calls[c].pc = "action" \/ calls[c].outcome = Ok) =>
            calls[c].justified

\* C27: past protectedProcedure, the session in ctx, the principal whose
\* roles are looked up and the session handed to the action are those of
\* getSession for the request's headers; a session key already in the
\* incoming context never takes their place.
C27_SessionFromHeaders ==
    \A c \in CallIds :
        (calls[c].pc \notin {"idle", "session"} /\ calls[c].outcome # Unauthorized) =>
            /\ calls[c].ctx.session = GetSession(calls[c].headers)
            /\ calls[c].ctx.userRoles # Undefined =>
                  calls[c].ctx.userRoles =
                      RoleQuery(userRoles, roles, calls[c].headers)
            /\ (calls[c].executed /\ calls[c].kind = "checkAccess") =>
                  calls[c].data.roles =
                      RoleQuery(userRoles, roles, calls[c].headers)

\* C28: on one store state and for one authenticated principal, checkAccess
\* returns isAdmin true exactly when adminProcedure lets the principal
\* through, and the roles it returns are the ctx.userRoles adminProcedure
\* passes on.
C28_CheckAccessAgreesWithGuard ==
    \A c \in CallIds, d \in CallIds :
        (/\ calls[c].pc = "done" /\ calls[c].kind = "checkAccess"
         /\ calls[d].pc = "done" /\ calls[d].kind = "admin"
         /\ calls[c].headers \in Users
         /\ calls[d].headers = calls[c].headers) =>
            /\ calls[c].outcome = Ok
            /\ calls[d].outcome \in {Ok, AdminRequired}
            /\ calls[c].data.isAdmin <=> calls[d].outcome = Ok
            /\ calls[d].outcome = Ok =>
                  calls[c].data.roles = calls[d].data.ctx.userRoles
            /\ calls[d].outcome = AdminRequired =>
                  ~IsAdmin(calls[c].data.roles)

\* both asked for a content manager who also is a customer: isAdmin true,
\* the guard passed, the same two names
C28_Witness ==
    \E c \in CallIds, d \in CallIds :
        /\ calls[c].pc = "done" /\ calls[c].kind = "checkAccess"
        /\ calls[d].pc = "done" /\ calls[d].kind = "admin"
        /\ calls[d].headers = calls[c].headers
        /\ calls[c].outcome = Ok /\ calls[d].outcome = Ok
        /\ calls[c].data.isAdmin
        /\ BagToSet(calls[d].data.ctx.userRoles) =
              {ROLE_NAMES.CONTENT_MANAGER, ROLE_NAMES.CUSTOMER}
        /\ calls[c].data.roles = calls[d].data.ctx.userRoles

GatedKinds == {"admin", "permission"}
RowsOnlyAdded ==
    /\ \A k \in DOMAIN userRoles : BagIn(k, userRoles')
    /\ rolePermissions \subseteq rolePermissions'
RowsOnlyRemoved ==
    /\ \A k \in DOMAIN userRoles' : BagIn(k, userRoles)
    /\ rolePermissions' \subseteq rolePermissions

\* C29: for a principal and a permission, a user_roles or role_permissions
\* row added to the store never turns an allow of the admin gate or of the
\* permission gate into a denial, and a row removed never turns a denial into
\* an allow.
C29_MonotoneInRows ==
    [][nWrites' # nWrites =>
       \A uid \in Users, p \in PermissionNames, kind \in GatedKinds :
          /\ (/\ RowsOnlyAdded
              /\ DecideOn(userRoles, rolePermissions, kind, uid, p) = Ok) =>
                DecideOn(userRoles', rolePermissions', kind, uid, p) = Ok
          /\ (/\ RowsOnlyRemoved
              /\ DecideOn(userRoles, rolePermissions, kind, uid, p) # Ok) =>
                DecideOn(userRoles', rolePermissions', kind, uid, p) # Ok]_vars

\* allowed, then given a further role that is not granted the permission,
\* and allowed again
C29_Witness ==
    \E c \in CallIds :
        /\ PermissionCall(c) /\ Allowed(c) /\ calls[c].prevAllowed
        /\ calls[c].requiredPermission = PagesCreate
        /\ HeldNames(Principal(c)) =
              {ROLE_NAMES.EDITOR, ROLE_NAMES.CONTENT_MANAGER}
        /\ lastRevoked = Null /\ nWrites = 2
        /\ rolePermissions = SeedGrants

\* States of user_roles and role_permissions to hold the store against.
OtherAssignments == FixedAssignments \cup {EmptyBag}
OtherGrants == {SeedGrants, {}, {<<"R3", "P1">>, <<"R1", "P2">>}}
\* Two states agree on the rows of uid and on the grants of the roles it holds.
AgreeFor(uid, ur1, rp1, ur2, rp2) ==
    /\ \A rid \in RoleIds : BagIn(<<uid, rid>>, ur1) <=> BagIn(<<uid, rid>>, ur2)
    /\ \A rid \in RoleIds :
          BagIn(<<uid, rid>>, ur1) =>
              {g \in rp1 : g[1] = rid} = {g \in rp2 : g[1] = rid}

\* C30: two store states that agree on a principal's user_roles rows and on
\* the role_permissions rows of the roles it holds give it the same outcome of
\* the admin gate and of the permission gate, whatever other principals hold
\* and whatever is granted to other roles.
C30_OnlyOwnRowsCount ==
    /\ [](\A uid \in Users, p \in PermissionNames, kind \in GatedKinds :
            \A ur2 \in OtherAssignments, rp2 \in OtherGrants :
                AgreeFor(uid, userRoles, rolePermissions, ur2, rp2) =>
                    DecideOn(userRoles, rolePermissions, kind, uid, p) =
                        DecideOn(ur2, rp2, kind, uid, p))
    /\ [][nWrites' # nWrites =>
          \A uid \in Users, p \in PermissionNames, kind \in GatedKinds :
            AgreeFor(uid, userRoles, rolePermissions,
                     userRoles', rolePermissions') =>
                DecideOn(userRoles, rolePermissions, kind, uid, p) =
                    DecideOn(userRoles', rolePermissions', kind, uid, p)]_vars

\* a customer turned away while the other principal is super_admin and the
\* permission was granted to a role the customer does not hold
C30_Witness ==
    \E c \in CallIds :
        /\ PermissionCall(c)
        /\ calls[c].requiredPermission = ProductsDelete
        /\ HeldNames(Principal(c)) = {ROLE_NAMES.CUSTOMER}
        /\ calls[c].outcome = AdminRequired
        /\ \E u \in Users \ {Principal(c)} : HeldNames(u) = {SuperAdmin}
        /\ <<"R2", "P2">> \in rolePermissions
        /\ nWrites = 3

====
